---- MODULE Spec2Model ----
(***************************************************************************)
(* Model of final2.py: the Classic Doctor Who comics downloader.           *)
(*                                                                         *)
(* Strings are sequences of characters; a character is a one-token string. *)
(* The characters are one representative per class that the code's string  *)
(* operations tell apart:                                                  *)
(*   "a" "b"  lower-case letters         "A"  upper-case letter            *)
(*   " "      U+0020 space               "\t" ASCII control whitespace     *)
(*   "nbsp"   U+00A0, whitespace for str.strip(), not ASCII                *)
(*   "?"      punctuation the file-name sanitizer removes                  *)
(*   "_"      underscore                                                   *)
(* No string over these characters is a reserved device name, ends in a    *)
(* period or exceeds the sanitizer's 255 character limit, so those rules   *)
(* of sanitize_filename are not exercised.                                 *)
(***************************************************************************)
EXTENDS Integers, Sequences, FiniteSets, TLC

\* ------------------------------------------------------------------ bounds
\* longest input string given to make_safe_name in SpecSafe
MaxLen == 4

\* number of h2/img nodes on the page of a run that scrapes one section
MaxNodes == 4

\* number of h2/img nodes over the four pages of a run that scrapes all sections
MaxNodesAll == 3

\* ------------------------------------------------------------- characters
Chars == {"a", "b", "A", " ", "\t", "nbsp", "?", "_"}

\* characters str.strip() removes from both ends
PyWhitespace == {" ", "\t", "nbsp"}

\* characters sanitize_filename (platform "universal") deletes
InvalidFilenameChars == {"?", "\t"}

\* strings of length 0..n over the set S
RECURSIVE StringsUpTo(_, _)
StringsUpTo(S, n) ==
    IF n = 0 THEN {<<>>}
    ELSE LET shorter == StringsUpTo(S, n - 1)
         IN  shorter \cup {Append(s, c) : s \in {t \in shorter : Len(t) = n - 1}, c \in S}

RECURSIVE LStrip(_, _)
LStrip(s, drop) ==
    IF s # <<>> /\ Head(s) \in drop THEN LStrip(Tail(s), drop) ELSE s

RECURSIVE RStrip(_, _)
RStrip(s, drop) ==
    IF s # <<>> /\ s[Len(s)] \in drop THEN RStrip(SubSeq(s, 1, Len(s) - 1), drop) ELSE s

\* str.strip(): leading and trailing whitespace removed
strip(s) == RStrip(LStrip(s, PyWhitespace), PyWhitespace)

\* pathvalidate.sanitize_filename, platform "universal": invalid characters
\* are deleted, then a leading space and trailing spaces/periods are cut
sanitize_filename(s) ==
    LET kept == SelectSeq(s, LAMBDA c : c \notin InvalidFilenameChars)
    IN  RStrip(LStrip(kept, {" "}), {" ", "."})

\* a variant that collapses each run of spaces into one underscore
RECURSIVE replace_run_collapsing(_)
replace_run_collapsing(s) ==
    IF s = <<>> THEN <<>>
    ELSE IF Head(s) = " "
         THEN <<"_">> \o replace_run_collapsing(LStrip(s, {" "}))
         ELSE <<Head(s)>> \o replace_run_collapsing(Tail(s))

\* name.replace(" ", "_"): every space becomes one underscore
replace_space(s) == [i \in 1..Len(s) |-> IF s[i] = " " THEN "_" ELSE s[i]]

lower_char(c) == IF c = "A" THEN "a" ELSE c

\* str.lower()
lower(s) == [i \in 1..Len(s) |-> lower_char(s[i])]

\* make_safe_name, lines 23-28
make_safe_name(name) == lower(replace_space(sanitize_filename(strip(name))))


\* ------------------------------------------------------------ configuration
\* DOCTOR_SECTIONS, as the list of its keys in insertion order
DoctorKeys == <<"first_doctor", "second_doctor", "third_doctor", "fourth_doctor">>

\* DOCTOR_SECTIONS.get(key)
DOCTOR_SECTIONS(key) ==
    CASE key = "first_doctor"  -> "https://classicdoctorwhocomics.wordpress.com/first-doctor-comics/"
      [] key = "second_doctor" -> "https://classicdoctorwhocomics.wordpress.com/second-doctor-comics/"
      [] key = "third_doctor"  -> "https://classicdoctorwhocomics.wordpress.com/third-doctor-comics/"
      [] key = "fourth_doctor" -> "https://classicdoctorwhocomics.wordpress.com/fourth-doctor-comics/"
      [] OTHER -> ""

\* the value of a variable that holds Python's None where a string may be
None == <<"None">>

\* lines the user may type at the prompt
Choices == {"abc", "0", "1", "2", "3", "4", "5", "6"}

\* the lines int(choice) accepts; any other line raises ValueError
NumericChoices == {"0", "1", "2", "3", "4", "5", "6"}

\* int(choice) for a line it accepts
ParseInt(c) ==
    CASE c = "0" -> 0 [] c = "1" -> 1 [] c = "2" -> 2 [] c = "3" -> 3
      [] c = "4" -> 4 [] c = "5" -> 5 [] c = "6" -> 6

\* the list choose_doctor_keys returns for the typed line
choose_doctor_keys(c) ==
    LET options == DoctorKeys
    IN  IF c \notin NumericChoices THEN <<>>
        ELSE IF ParseInt(c) = Len(options) + 1 THEN options
        ELSE IF 1 <= ParseInt(c) /\ ParseInt(c) <= Len(options) THEN <<options[ParseInt(c)]>>
        ELSE <<>>

\* raw texts of the h2 nodes a page may hold: whitespace only, punctuation
\* only, "A" and "a?" (different texts, different lower-cased texts, the same
\* safe name "a") and "b"
HeadingTexts == {<<" ">>, <<"?">>, <<"A">>, <<"a", "?">>, <<"b">>}

\* values of node.get("src"): NoSrc stands for the two values line 98 takes
\* for false (None, attribute absent, and the empty string); the other is a
\* relative link
NoSrc == ""
Srcs == {NoSrc, "p.jpg"}

\* the nodes soup.find_all(["h2", "img"]) may yield
HeadingNodes == {[tag |-> "h2", text |-> t, src |-> NoSrc] : t \in HeadingTexts}
ImageNodes == {[tag |-> "img", text |-> <<>>, src |-> s] : s \in Srcs}

\* urljoin(section_url, src) for a relative src: the link under the page URL
urljoin(base, src) == <<base, src>>

\* decimal digits of a natural number
DigitChar(d) ==
    CASE d = 0 -> "0" [] d = 1 -> "1" [] d = 2 -> "2" [] d = 3 -> "3" [] d = 4 -> "4"
      [] d = 5 -> "5" [] d = 6 -> "6" [] d = 7 -> "7" [] d = 8 -> "8" [] d = 9 -> "9"

RECURSIVE Str(_)
Str(n) == IF n < 10 THEN <<DigitChar(n)>> ELSE Str(n \div 10) \o <<DigitChar(n % 10)>>

\* f"{page_num:02d}"
Format02d(n) == IF n < 10 THEN <<"0">> \o Str(n) ELSE Str(n)

\* f"page_{page_num:02d}.jpg"
PageFilename(n) == <<"page_">> \o Format02d(n) \o <<".jpg">>

\* paths below ~/Desktop, as lists of components
DownloadRoot == <<"comic_images">>
DoctorFolder(key) == Append(DownloadRoot, key)
TitleFolder(key, safe) == Append(DoctorFolder(key), safe)

\* os.makedirs(path, exist_ok=True): the folder and every missing parent
makedirs(existing, path) == existing \cup {SubSeq(path, 1, n) : n \in 1..Len(path)}

\* the rows create_csv writes after the header
CsvRows(rows) == [i \in 1..Len(rows) |-> <<Str(i), rows[i][1], rows[i][2], rows[i][3]>>]

\* a variant of create_pdf that numbers the rows from 0
PdfRowsFromZero(rows) ==
    [i \in 1..Len(rows) |-> <<Str(i - 1), rows[i][1], rows[i][2], rows[i][3]>>]

\* the rows create_pdf appends to data after the header
PdfRows(rows) == [i \in 1..Len(rows) |-> <<Str(i), rows[i][1], rows[i][2], rows[i][3]>>]


\* ------------------------------------------------------------------- state
VARIABLES
    pc,                \* where main() is: start, choose, loop, walk, pdf,
                       \* done (returned) or crashed (uncaught exception)
    doctor_keys,       \* main: the selected section keys
    key_idx,           \* main: position of the for loop in doctor_keys
    all_rows,          \* main: rows accumulated over the sections
    pages,             \* per section entered, the nodes its walk has consumed
    current_title,     \* scrape_doctor_section locals
    image_counters,
    titles_for_doctor,
    titles_seen,
    dirs,              \* folders that exist below ~/Desktop
    files,             \* image files on disk: <<path, number of the request that wrote it>>
    csv_file,          \* titles_list.csv: whether written, and its data rows
    pdf_file,          \* titles_list.pdf: whether written, and its table body
    requests,          \* every HTTP GET of the run, in order, with its outcome
    sn_pc,             \* make_safe_name run on its own: position, argument,
    sn_arg,            \* local variable and the values returned so far
    name,
    sn_ret

mainVars == <<pc, doctor_keys, key_idx, all_rows, pages, current_title, image_counters,
              titles_for_doctor, titles_seen, dirs, files, csv_file, pdf_file, requests>>
safeVars == <<sn_pc, sn_arg, name, sn_ret>>
vars == <<pc, doctor_keys, key_idx, all_rows, pages, current_title, image_counters,
          titles_for_doctor, titles_seen, dirs, files, csv_file, pdf_file, requests,
          sn_pc, sn_arg, name, sn_ret>>

NoFile == [written |-> FALSE, rows |-> <<>>]

\* the empty dict {}
EmptyDict == [t \in {} |-> 0]

InitMain ==
    /\ pc = "start"
    /\ doctor_keys = <<>>
    /\ key_idx = 0
    /\ all_rows = <<>>
    /\ pages = <<>>
    /\ current_title = None
    /\ image_counters = EmptyDict
    /\ titles_for_doctor = <<>>
    /\ titles_seen = {}
    /\ dirs = {}
    /\ files = {}
    /\ csv_file = NoFile
    /\ pdf_file = NoFile
    /\ requests = <<>>

\* a variant that takes the keys from the end of the list
CurKeyReversed == doctor_keys[Len(doctor_keys) + 1 - key_idx]

\* the key and the nodes of the section being scraped
CurKey == doctor_keys[key_idx]
CurNodes == pages[Len(pages)]

RECURSIVE SumLen(_)
SumLen(ps) == IF ps = <<>> THEN 0 ELSE Len(Head(ps)) + SumLen(Tail(ps))

\* nodes consumed so far in the run
NodesUsed == SumLen(pages)

\* the walk may consume one more node within the bounds
MoreNodes == NodesUsed < (IF Len(doctor_keys) = 1 THEN MaxNodes ELSE MaxNodesAll)


\* one HTTP GET: kind "page" or "img", the section, the URL, the outcome
\* ("ok", "fetch" for a network/status/timeout error, "write" for an error
\* while writing the file), the file the body goes to and the node's position
Request(kind, key, url, outcome, path, node) ==
    [kind |-> kind, key |-> key, url |-> url, outcome |-> outcome, path |-> path, node |-> node]

\* pages with node n appended to the page being walked
Consume(n) == [pages EXCEPT ![Len(pages)] = Append(@, n)]

\* ----------------------------------------------------------------- main()
\* main, line 178: get_download_root() creates the download folder
GetDownloadRoot ==
    /\ pc = "start"
    /\ dirs' = makedirs(dirs, DownloadRoot)
    /\ pc' = "choose"
    /\ UNCHANGED <<doctor_keys, key_idx, all_rows, pages, current_title, image_counters,
                   titles_for_doctor, titles_seen, files, csv_file, pdf_file, requests>>

\* main, lines 179-182: a valid choice, the loop over the keys starts
SelectSections ==
    /\ pc = "choose"
    /\ \E c \in Choices :
        /\ choose_doctor_keys(c) # <<>>
        /\ doctor_keys' = choose_doctor_keys(c)
    /\ all_rows' = <<>>
    /\ key_idx' = 1
    /\ pc' = "loop"
    /\ UNCHANGED <<pages, current_title, image_counters, titles_for_doctor, titles_seen,
                   dirs, files, csv_file, pdf_file, requests>>

\* main, lines 179-181: an invalid choice, main returns
InvalidChoice ==
    /\ pc = "choose"
    /\ \E c \in Choices :
        /\ choose_doctor_keys(c) = <<>>
        /\ doctor_keys' = choose_doctor_keys(c)
    /\ pc' = "done"
    /\ UNCHANGED <<key_idx, all_rows, pages, current_title, image_counters,
                   titles_for_doctor, titles_seen, dirs, files, csv_file, pdf_file, requests>>

\* the for loop of main, line 183, has a key left; every key of doctor_keys
\* is a key of DOCTOR_SECTIONS, so the test of line 185 never holds
MoreKeys == pc = "loop" /\ key_idx <= Len(doctor_keys) /\ DOCTOR_SECTIONS(CurKey) # ""

\* main, lines 183-188, scrape_doctor_section, lines 59-69: the section's
\* folder is created, the page is fetched and parsed
FetchPageOk ==
    /\ MoreKeys
    /\ dirs' = makedirs(dirs, DoctorFolder(CurKey))
    /\ requests' = Append(requests,
                          Request("page", CurKey, DOCTOR_SECTIONS(CurKey), "ok", <<>>, 0))
    /\ pages' = Append(pages, <<>>)
    /\ current_title' = None
    /\ image_counters' = EmptyDict
    /\ titles_for_doctor' = <<>>
    /\ titles_seen' = {}
    /\ pc' = "walk"
    /\ UNCHANGED <<doctor_keys, key_idx, all_rows, files, csv_file, pdf_file>>

\* main, lines 183-188, scrape_doctor_section, lines 59-64: the section's
\* folder is created, requests.get or raise_for_status raises; neither
\* scrape_doctor_section nor main has a handler
FetchPageFail ==
    /\ MoreKeys
    /\ dirs' = makedirs(dirs, DoctorFolder(CurKey))
    /\ requests' = Append(requests,
                          Request("page", CurKey, DOCTOR_SECTIONS(CurKey), "fetch", <<>>, 0))
    /\ pc' = "crashed"
    /\ UNCHANGED <<doctor_keys, key_idx, all_rows, pages, current_title, image_counters,
                   titles_for_doctor, titles_seen, files, csv_file, pdf_file>>

\* ------------------------------------------- scrape_doctor_section, the walk
\* a heading is valid when its stripped text and its safe name are non-empty
ValidHeading(text) == strip(text) # <<>> /\ make_safe_name(strip(text)) # <<>>

\* a variant that leaves the title in place at a discarded heading
NextTitleKeeping(cur, text) == IF ValidHeading(text) THEN strip(text) ELSE cur

\* current_title after an h2 node, lines 72-84
NextTitle(cur, text) == IF ValidHeading(text) THEN strip(text) ELSE None

\* a variant that starts a counter only for a title that has none yet
CountersAtHeadingContinuing(counters, title) ==
    [t \in DOMAIN counters \cup {title} |->
        IF t \in DOMAIN counters THEN counters[t] ELSE 0]

\* image_counters[current_title] = 0, line 87
CountersAtHeading(counters, title) ==
    [t \in DOMAIN counters \cup {title} |-> IF t = title THEN 0 ELSE counters[t]]

\* a variant that appends a row at every valid heading
RowsAtHeadingNoDedup(rows, seen, key, title_text, safe_title) ==
    Append(rows, <<key, lower(title_text), safe_title>>)

\* a variant in which a later heading of a safe name rewrites its row
RowsAtHeadingLastWins(rows, seen, key, title_text, safe_title) ==
    IF safe_title \notin seen
    THEN Append(rows, <<key, lower(title_text), safe_title>>)
    ELSE [k \in DOMAIN rows |->
             IF rows[k][3] = safe_title THEN <<key, lower(title_text), safe_title>> ELSE rows[k]]

\* titles_for_doctor after a valid heading, lines 90-92
RowsAtHeading(rows, seen, key, title_text, safe_title) ==
    IF safe_title \notin seen
    THEN Append(rows, <<key, lower(title_text), safe_title>>)
    ELSE rows

\* a variant that leaves the folder to be created later
DirsAtHeadingNotYet(existing, key, safe_title) == existing

\* the folders after os.makedirs(title_folder, exist_ok=True), lines 85-86
DirsAtHeading(existing, key, safe_title) == makedirs(existing, TitleFolder(key, safe_title))

\* lines 71-78 and 79-83: an h2 node that is discarded
HeadingDiscarded ==
    /\ pc = "walk"
    /\ MoreNodes
    /\ \E n \in HeadingNodes :
        /\ ~ValidHeading(n.text)
        /\ current_title' = NextTitle(current_title, n.text)
        /\ pages' = Consume(n)
    /\ UNCHANGED <<pc, doctor_keys, key_idx, all_rows, image_counters, titles_for_doctor,
                   titles_seen, dirs, files, csv_file, pdf_file, requests>>

\* lines 71-93: an h2 node that opens a title
HeadingValid ==
    /\ pc = "walk"
    /\ MoreNodes
    /\ \E n \in HeadingNodes :
        LET title_text == strip(n.text)
            safe_title == make_safe_name(title_text)
        IN  /\ ValidHeading(n.text)
            /\ current_title' = NextTitle(current_title, n.text)
            /\ dirs' = DirsAtHeading(dirs, CurKey, safe_title)
            /\ image_counters' = CountersAtHeading(image_counters, title_text)
            /\ titles_for_doctor' =
                   RowsAtHeading(titles_for_doctor, titles_seen, CurKey, title_text, safe_title)
            /\ titles_seen' = titles_seen \cup {safe_title}
            /\ pages' = Consume(n)
    /\ UNCHANGED <<pc, doctor_keys, key_idx, all_rows, files, csv_file, pdf_file, requests>>

\* lines 94-99: an img node outside a title or without src
ImageIgnored ==
    /\ pc = "walk"
    /\ MoreNodes
    /\ \E n \in ImageNodes :
        /\ current_title = None \/ n.src = NoSrc
        /\ pages' = Consume(n)
    /\ UNCHANGED <<pc, doctor_keys, key_idx, all_rows, current_title, image_counters,
                   titles_for_doctor, titles_seen, dirs, files, csv_file, pdf_file, requests>>

\* a variant that names the folder by the title as written
ImagePathRawTitle(key, title, counters) ==
    Append(TitleFolder(key, title), PageFilename(counters[title] + 1))

\* the file the next image of the current title goes to, lines 101-106
ImagePath(key, title, counters) ==
    Append(TitleFolder(key, make_safe_name(title)), PageFilename(counters[title] + 1))

\* a variant that takes the increment back when the download failed
CountersAfterImageRollback(counters, title, outcome) ==
    IF outcome = "ok" THEN [counters EXCEPT ![title] = @ + 1] ELSE counters

\* image_counters[current_title] += 1, line 101: before download_image is
\* called, whatever its outcome will be
CountersAfterImage(counters, title, outcome) == [counters EXCEPT ![title] = @ + 1]

\* a variant in which the exception leaves download_image
PcAfterDownloadErrorRaising == "crashed"

\* download_image, lines 55-56: the handler prints and returns to the walk
PcAfterDownloadError == "walk"

\* files after open(filepath, "wb") and f.write: the file holds the body of
\* request number req
WriteFile(fs, path, req) == {f \in fs : f[1] # path} \cup {<<path, req>>}

\* lines 100-109, download_image succeeds
ImageSaved ==
    /\ pc = "walk"
    /\ MoreNodes
    /\ current_title # None
    /\ \E n \in ImageNodes :
        LET filepath == ImagePath(CurKey, current_title, image_counters)
            img_url == urljoin(DOCTOR_SECTIONS(CurKey), n.src)
        IN  /\ n.src # NoSrc
            /\ image_counters' = CountersAfterImage(image_counters, current_title, "ok")
            /\ requests' = Append(requests,
                   Request("img", CurKey, img_url, "ok", filepath, Len(CurNodes) + 1))
            /\ files' = WriteFile(files, filepath, Len(requests) + 1)
            /\ pages' = Consume(n)
    /\ UNCHANGED <<pc, doctor_keys, key_idx, all_rows, current_title, titles_for_doctor,
                   titles_seen, dirs, csv_file, pdf_file>>

\* lines 100-109, download_image catches an exception: the GET failed or the
\* file could not be opened ("fetch", the file is untouched) or the write
\* failed ("write", the file was opened for writing and holds no complete
\* body, request number 0)
ImageFailed ==
    /\ pc = "walk"
    /\ MoreNodes
    /\ current_title # None
    /\ \E n \in ImageNodes, err \in {"fetch", "write"} :
        LET filepath == ImagePath(CurKey, current_title, image_counters)
            img_url == urljoin(DOCTOR_SECTIONS(CurKey), n.src)
        IN  /\ n.src # NoSrc
            /\ image_counters' = CountersAfterImage(image_counters, current_title, err)
            /\ requests' = Append(requests,
                   Request("img", CurKey, img_url, err, filepath, Len(CurNodes) + 1))
            /\ files' = IF err = "write" THEN WriteFile(files, filepath, 0) ELSE files
            /\ pages' = Consume(n)
    /\ pc' = PcAfterDownloadError
    /\ UNCHANGED <<doctor_keys, key_idx, all_rows, current_title, titles_for_doctor,
                   titles_seen, dirs, csv_file, pdf_file>>

\* a variant that puts the section's rows in front
ExtendRowsInFront(rows, more) == more \o rows

\* all_rows.extend(titles_for_doctor), line 189
ExtendRows(rows, more) == rows \o more

\* line 110 and main, line 189: the walk is over, the rows are returned
SectionReturn ==
    /\ pc = "walk"
    /\ all_rows' = ExtendRows(all_rows, titles_for_doctor)
    /\ key_idx' = key_idx + 1
    /\ pc' = "loop"
    /\ UNCHANGED <<doctor_keys, pages, current_title, image_counters, titles_for_doctor,
                   titles_seen, dirs, files, csv_file, pdf_file, requests>>

\* a variant that writes the manifest whatever the row list holds
ManifestWantedAlways(rows) == TRUE

\* if all_rows, line 192
ManifestWanted(rows) == rows # <<>>

\* the for loop of main, line 183, is exhausted
NoMoreKeys == pc = "loop" /\ key_idx > Len(doctor_keys)

\* main, lines 190-193: create_csv writes the file
CreateCsv ==
    /\ NoMoreKeys
    /\ ManifestWanted(all_rows)
    /\ csv_file' = [written |-> TRUE, rows |-> CsvRows(all_rows)]
    /\ pc' = "pdf"
    /\ UNCHANGED <<doctor_keys, key_idx, all_rows, pages, current_title, image_counters,
                   titles_for_doctor, titles_seen, dirs, files, pdf_file, requests>>

\* main, lines 190-193: open() in create_csv raises, nothing catches it
CreateCsvFail ==
    /\ NoMoreKeys
    /\ ManifestWanted(all_rows)
    /\ pc' = "crashed"
    /\ UNCHANGED <<doctor_keys, key_idx, all_rows, pages, current_title, image_counters,
                   titles_for_doctor, titles_seen, dirs, files, csv_file, pdf_file, requests>>

\* main, line 194: create_pdf builds the document
CreatePdf ==
    /\ pc = "pdf"
    /\ pdf_file' = [written |-> TRUE, rows |-> PdfRows(all_rows)]
    /\ pc' = "done"
    /\ UNCHANGED <<doctor_keys, key_idx, all_rows, pages, current_title, image_counters,
                   titles_for_doctor, titles_seen, dirs, files, csv_file, requests>>

\* main, line 194: doc.build in create_pdf raises, nothing catches it
CreatePdfFail ==
    /\ pc = "pdf"
    /\ pc' = "crashed"
    /\ UNCHANGED <<doctor_keys, key_idx, all_rows, pages, current_title, image_counters,
                   titles_for_doctor, titles_seen, dirs, files, csv_file, pdf_file, requests>>

\* main, lines 190-197: no rows, no manifest
SkipManifest ==
    /\ NoMoreKeys
    /\ ~ManifestWanted(all_rows)
    /\ pc' = "done"
    /\ UNCHANGED <<doctor_keys, key_idx, all_rows, pages, current_title, image_counters,
                   titles_for_doctor, titles_seen, dirs, files, csv_file, pdf_file, requests>>

\* --------------------------------------------- make_safe_name run on its own
SafeIdle ==
    /\ sn_pc = "idle"
    /\ sn_arg = <<>>
    /\ name = <<>>
    /\ sn_ret = <<>>

\* the function is about to be called on any string of the alphabet
SafeInputs ==
    /\ sn_pc = "call"
    /\ sn_arg \in StringsUpTo(Chars, MaxLen)
    /\ name = <<>>
    /\ sn_ret = <<>>

\* line 23: the call; the second call is given the first call's result
SafeCall ==
    /\ sn_pc = "call"
    /\ name' = IF sn_ret = <<>> THEN sn_arg ELSE sn_ret[Len(sn_ret)]
    /\ sn_pc' = "strip"
    /\ UNCHANGED <<sn_arg, sn_ret>>

\* line 24
SafeStrip ==
    /\ sn_pc = "strip"
    /\ name' = strip(name)
    /\ sn_pc' = "sanitize"
    /\ UNCHANGED <<sn_arg, sn_ret>>

\* line 25
SafeSanitize ==
    /\ sn_pc = "sanitize"
    /\ name' = sanitize_filename(name)
    /\ sn_pc' = "replace"
    /\ UNCHANGED <<sn_arg, sn_ret>>

\* line 26
SafeReplace ==
    /\ sn_pc = "replace"
    /\ name' = replace_space(name)
    /\ sn_pc' = "lower"
    /\ UNCHANGED <<sn_arg, sn_ret>>

\* line 27
SafeLower ==
    /\ sn_pc = "lower"
    /\ name' = lower(name)
    /\ sn_pc' = "return"
    /\ UNCHANGED <<sn_arg, sn_ret>>

\* line 28
SafeReturn ==
    /\ sn_pc = "return"
    /\ sn_ret' = Append(sn_ret, name)
    /\ sn_pc' = IF Len(sn_ret) = 0 THEN "call" ELSE "end"
    /\ UNCHANGED <<sn_arg, name>>

\* ---------------------------------------------------------- specifications
Init == InitMain /\ SafeIdle

Next ==
    \/ (GetDownloadRoot /\ UNCHANGED safeVars)
    \/ (SelectSections /\ UNCHANGED safeVars)
    \/ (InvalidChoice /\ UNCHANGED safeVars)
    \/ (FetchPageOk /\ UNCHANGED safeVars)
    \/ (FetchPageFail /\ UNCHANGED safeVars)
    \/ (HeadingDiscarded /\ UNCHANGED safeVars)
    \/ (HeadingValid /\ UNCHANGED safeVars)
    \/ (ImageIgnored /\ UNCHANGED safeVars)
    \/ (ImageSaved /\ UNCHANGED safeVars)
    \/ (ImageFailed /\ UNCHANGED safeVars)
    \/ (SectionReturn /\ UNCHANGED safeVars)
    \/ (CreateCsv /\ UNCHANGED safeVars)
    \/ (CreateCsvFail /\ UNCHANGED safeVars)
    \/ (CreatePdf /\ UNCHANGED safeVars)
    \/ (CreatePdfFail /\ UNCHANGED safeVars)
    \/ (SkipManifest /\ UNCHANGED safeVars)

Spec == Init /\ [][Next]_vars

InitSafe == InitMain /\ SafeInputs

NextSafe ==
    \/ (SafeCall /\ UNCHANGED mainVars)
    \/ (SafeStrip /\ UNCHANGED mainVars)
    \/ (SafeSanitize /\ UNCHANGED mainVars)
    \/ (SafeReplace /\ UNCHANGED mainVars)
    \/ (SafeLower /\ UNCHANGED mainVars)
    \/ (SafeReturn /\ UNCHANGED mainVars)

SpecSafe == InitSafe /\ [][NextSafe]_vars


\* ------------------------------------------------- what a page's nodes say
\* position of the last h2 node before position j, 0 when there is none
LastHeading(nodes, j) ==
    LET hs == {h \in 1..(j - 1) : nodes[h].tag = "h2"}
    IN  IF hs = {} THEN 0 ELSE CHOOSE h \in hs : \A g \in hs : g <= h

\* the heading at position h has empty trimmed text or an empty safe name
InvalidHeadingAt(nodes, h) ==
    strip(nodes[h].text) = <<>> \/ make_safe_name(nodes[h].text) = <<>>

\* the img node at position j has no current title
OrphanAt(nodes, j) ==
    /\ nodes[j].tag = "img"
    /\ LastHeading(nodes, j) = 0 \/ InvalidHeadingAt(nodes, LastHeading(nodes, j))

\* the img node at position j has a title and a src
PageImageAt(nodes, j) ==
    /\ nodes[j].tag = "img"
    /\ nodes[j].src # NoSrc
    /\ ~OrphanAt(nodes, j)

\* rank of the image at position j among the images with src of its heading
RankAt(nodes, j) ==
    Cardinality({i \in (LastHeading(nodes, j) + 1)..j : nodes[i].tag = "img" /\ nodes[i].src # NoSrc})

\* the requests made for the node at position j of the i-th page
RequestsFor(i, j) ==
    {r \in DOMAIN requests :
        requests[r].kind = "img" /\ requests[r].key = doctor_keys[i] /\ requests[r].node = j}

\* the non-empty safe names of the headings, each once, in first-seen order
RECURSIVE FirstSeenSafeNames(_)
FirstSeenSafeNames(nodes) ==
    IF nodes = <<>> THEN <<>>
    ELSE LET before == FirstSeenSafeNames(SubSeq(nodes, 1, Len(nodes) - 1))
             n == nodes[Len(nodes)]
             safe == make_safe_name(n.text)
         IN  IF n.tag = "h2" /\ safe # <<>> /\ \A k \in DOMAIN before : before[k] # safe
             THEN Append(before, safe)
             ELSE before

\* the <<section key, safe name>> pairs of the first i pages, page after page
RECURSIVE PairsOfPages(_)
PairsOfPages(i) ==
    IF i = 0 THEN <<>>
    ELSE PairsOfPages(i - 1) \o
         [k \in DOMAIN FirstSeenSafeNames(pages[i]) |->
             <<doctor_keys[i], FirstSeenSafeNames(pages[i])[k]>>]

\* value of a string of decimal digits
RECURSIVE DigitsValue(_)
DigitsValue(ds) ==
    IF ds = <<>> THEN 0
    ELSE 10 * DigitsValue(SubSeq(ds, 1, Len(ds) - 1))
         + (CHOOSE d \in 0..9 : DigitChar(d) = ds[Len(ds)])

PageRequestFailed ==
    \E r \in DOMAIN requests : requests[r].kind = "page" /\ requests[r].outcome # "ok"

\* --------------------------------------------------------------- the claims

\* C1: when several sections are selected and the page fetch of one of them
\* fails, the run still ends normally, has requested the page of every
\* selected section, and has written the rows it collected to the manifest.
C1_SectionFailureIsolated ==
    (Len(doctor_keys) > 1 /\ PageRequestFailed /\ pc \in {"done", "crashed"}) =>
        /\ pc = "done"
        /\ \A i \in DOMAIN doctor_keys :
               \E r \in DOMAIN requests :
                   requests[r].kind = "page" /\ requests[r].key = doctor_keys[i]
        /\ all_rows # <<>> => csv_file.written

\* C2: a walk step that consumes an img node while there is no current title
\* (no heading yet, or the last heading had empty trimmed text or an empty
\* safe name) makes no request, changes no counter, no file and no folder.
C2_OrphanImagesDropped ==
    [][(/\ pc = "walk"
        /\ pages # <<>>
        /\ Len(pages') = Len(pages)
        /\ Len(pages'[Len(pages)]) = Len(CurNodes) + 1
        /\ OrphanAt(pages'[Len(pages)], Len(CurNodes) + 1))
       => (/\ requests' = requests
           /\ image_counters' = image_counters
           /\ files' = files
           /\ dirs' = dirs
           /\ current_title' = None
           /\ pc' = "walk")]_vars

\* C2 witness: an image with src follows a discarded heading that follows a
\* valid title, and the only request of the walk is the page fetch.
C2_Witness ==
    /\ pc = "walk"
    /\ Len(CurNodes) = 3
    /\ CurNodes[1].tag = "h2" /\ ~InvalidHeadingAt(CurNodes, 1)
    /\ CurNodes[2].tag = "h2" /\ InvalidHeadingAt(CurNodes, 2)
    /\ CurNodes[3].tag = "img" /\ CurNodes[3].src # NoSrc
    /\ Len(requests) = 1

\* C3: for every page walked, every image with src under a valid heading has
\* exactly one request, and that request writes to page_<k, two digits>.jpg
\* in the folder of the heading's safe name, k being the image's rank among
\* the images with src since that heading occurrence.
C3_PageNumbering ==
    \A i \in DOMAIN pages : \A j \in DOMAIN pages[i] :
        PageImageAt(pages[i], j) =>
            LET k == RankAt(pages[i], j)
                h == LastHeading(pages[i], j)
                folder == <<"comic_images", doctor_keys[i], make_safe_name(pages[i][h].text)>>
            IN  /\ Cardinality(RequestsFor(i, j)) = 1
                /\ \A r \in RequestsFor(i, j) :
                       requests[r].path =
                           Append(folder, <<"page_", DigitChar(k \div 10), DigitChar(k % 10), ".jpg">>)

\* C3 witness: two valid headings of different titles, each followed by one
\* image with src; both images went to page_01.jpg, in different folders.
C3_Witness ==
    /\ pages # <<>>
    /\ Len(CurNodes) = 4
    /\ CurNodes[1].tag = "h2" /\ PageImageAt(CurNodes, 2)
    /\ CurNodes[3].tag = "h2" /\ PageImageAt(CurNodes, 4)
    /\ Len(requests) = 3
    /\ requests[2].path[4] = <<"page_", "0", "1", ".jpg">>
    /\ requests[3].path[4] = <<"page_", "0", "1", ".jpg">>
    /\ requests[2].path[3] # requests[3].path[3]

\* C4: the list scrape_doctor_section returns holds exactly one row per
\* distinct non-empty safe name among the headings of the page, in the order
\* in which the safe names first occur.
C4_RowsPerSafeName ==
    pages # <<>> =>
        /\ Len(titles_for_doctor) = Len(FirstSeenSafeNames(CurNodes))
        /\ \A k \in DOMAIN titles_for_doctor :
               titles_for_doctor[k][3] = FirstSeenSafeNames(CurNodes)[k]

\* C4 witness: the walk has returned two rows for three valid headings.
C4_Witness ==
    /\ pc = "loop"
    /\ pages # <<>>
    /\ Len(CurNodes) = 3
    /\ \A j \in 1..3 : CurNodes[j].tag = "h2" /\ ~InvalidHeadingAt(CurNodes, j)
    /\ Len(titles_for_doctor) = 2
    /\ make_safe_name(CurNodes[3].text) = titles_for_doctor[1][3]

\* C5: a run that ends on an invalid selection has created no folder, no CSV
\* and no PDF and has made no request.
C5_InvalidChoiceNoEffects ==
    (pc = "done" /\ doctor_keys = <<>>) =>
        /\ dirs = {}
        /\ files = {}
        /\ ~csv_file.written
        /\ ~pdf_file.written
        /\ requests = <<>>

\* C6: a step in which download_image fails (the GET or the file write)
\* leaves the walk running with its title, counters' owner and rows intact:
\* no exception reaches scrape_doctor_section, and every image with src under
\* a valid heading, before or after the failure, still gets its request.
C6_DownloadNeverRaises ==
    [][(/\ Len(requests') = Len(requests) + 1
        /\ requests'[Len(requests')].kind = "img"
        /\ requests'[Len(requests')].outcome # "ok")
       => (/\ pc' = "walk"
           /\ current_title' = current_title
           /\ titles_for_doctor' = titles_for_doctor
           /\ \A j \in DOMAIN pages'[Len(pages')] :
                  PageImageAt(pages'[Len(pages')], j) =>
                      \E r \in DOMAIN requests' :
                          /\ requests'[r].kind = "img"
                          /\ requests'[r].key = doctor_keys[Len(pages')]
                          /\ requests'[r].node = j)]_vars

\* C6 witness: the first image of a title failed, the next image of the same
\* title was fetched and saved, and the heading after it opened its title.
C6_Witness ==
    /\ pc = "walk"
    /\ Len(requests) = 3
    /\ requests[2].kind = "img" /\ requests[2].outcome # "ok"
    /\ requests[3].kind = "img" /\ requests[3].outcome = "ok"
    /\ requests[3].path[3] = requests[2].path[3]
    /\ Len(CurNodes) = 4
    /\ CurNodes[4].tag = "h2"
    /\ current_title # None
    /\ make_safe_name(current_title) # requests[2].path[3]

\* C7: the data rows of the CSV are, in order, the <<section key, safe name>>
\* pairs of the pages in processing order, each page giving its safe names
\* once in first-seen order; no pair occurs twice; row i carries ordinal i.
C7_ManifestRows ==
    csv_file.written =>
        LET rows == csv_file.rows
            expected == PairsOfPages(Len(pages))
        IN  /\ Len(pages) = Len(doctor_keys)
            /\ Len(rows) = Len(expected)
            /\ \A i \in DOMAIN rows :
                   /\ <<rows[i][2], rows[i][4]>> = expected[i]
                   /\ DigitsValue(rows[i][1]) = i
            /\ \A i, k \in DOMAIN rows :
                   (rows[i][2] = rows[k][2] /\ rows[i][4] = rows[k][4]) => i = k

\* C7 witness: a CSV of three rows, two from the first section and one from
\* the second.
C7_Witness ==
    /\ csv_file.written
    /\ Len(csv_file.rows) = 3
    /\ csv_file.rows[1][2] = "first_doctor"
    /\ csv_file.rows[2][2] = "first_doctor"
    /\ csv_file.rows[3][2] = "second_doctor"
    /\ csv_file.rows[1][4] # csv_file.rows[2][4]

\* C8: a run that went through the sections and returned normally has
\* written both the CSV and the PDF when it collected rows, and neither when
\* it collected none.
C8_BothOrNeither ==
    (pc = "done" /\ doctor_keys # <<>>) =>
        /\ csv_file.written <=> all_rows # <<>>
        /\ pdf_file.written <=> all_rows # <<>>

\* C8 witness: a run returned normally with both files written.
C8_Witness ==
    /\ pc = "done"
    /\ all_rows # <<>>
    /\ csv_file.written
    /\ pdf_file.written

\* C8, the other case: a run over sections without any valid heading
\* returned normally with neither file.
C8_WitnessEmpty ==
    /\ pc = "done"
    /\ doctor_keys # <<>>
    /\ NodesUsed > 0
    /\ all_rows = <<>>
    /\ ~csv_file.written
    /\ ~pdf_file.written

\* ------------------------------------------------ make_safe_name, the claims
IsLetter(c) == c \in {"a", "b", "A"}

\* x is letters, then a run of at least n characters of the set ws, then
\* letters; the result is <<last position of the first letters, first
\* position of the last letters>>
Sandwiches(x, ws, n) ==
    {pq \in (1..Len(x)) \X (1..Len(x)) :
        /\ pq[2] - pq[1] - 1 >= n
        /\ \A i \in 1..pq[1] : IsLetter(x[i])
        /\ \A i \in (pq[1] + 1)..(pq[2] - 1) : x[i] \in ws
        /\ \A i \in pq[2]..Len(x) : IsLetter(x[i])}

Underscores(n) == [i \in 1..n |-> "_"]

\* C9, as stated: an input made of name characters, a run of two or more
\* whitespace characters and name characters again comes out with exactly
\* one underscore between the two lower-cased groups of name characters.
C9_RunToOneUnderscore ==
    Len(sn_ret) >= 1 =>
        \A pq \in Sandwiches(sn_arg, PyWhitespace, 2) :
            sn_ret[1] = lower(SubSeq(sn_arg, 1, pq[1])) \o <<"_">>
                        \o lower(SubSeq(sn_arg, pq[2], Len(sn_arg)))

\* C9, amended: an input made of name characters, a run of n >= 1 space
\* characters and name characters again comes out with exactly n underscores
\* between the two lower-cased groups of name characters.
C9_SpaceToUnderscoreEach ==
    Len(sn_ret) >= 1 =>
        \A pq \in Sandwiches(sn_arg, {" "}, 1) :
            sn_ret[1] = lower(SubSeq(sn_arg, 1, pq[1])) \o Underscores(pq[2] - pq[1] - 1)
                        \o lower(SubSeq(sn_arg, pq[2], Len(sn_arg)))

\* C9 witness: "A  b" with two spaces has come out as "a__b".
C9_Witness ==
    /\ sn_arg = <<"A", " ", " ", "b">>
    /\ Len(sn_ret) >= 1
    /\ sn_ret[1] = <<"a", "_", "_", "b">>

\* C10: the second application of make_safe_name returns what the first
\* application returned.
C10_Idempotent ==
    Len(sn_ret) = 2 => sn_ret[2] = sn_ret[1]

\* --------------------------------------------------- the manifest, CSV and PDF

\* C11: when the PDF is written, its table body has as many rows as the CSV
\* has data rows, and row for row the same ordinal, section key, lower-cased
\* title and safe title, in the same order.
C11_PdfMatchesCsv ==
    pdf_file.written =>
        /\ csv_file.written
        /\ Len(pdf_file.rows) = Len(csv_file.rows)
        /\ \A i \in DOMAIN pdf_file.rows :
               /\ DigitsValue(pdf_file.rows[i][1]) = DigitsValue(csv_file.rows[i][1])
               /\ pdf_file.rows[i][2] = csv_file.rows[i][2]
               /\ pdf_file.rows[i][3] = csv_file.rows[i][3]
               /\ pdf_file.rows[i][4] = csv_file.rows[i][4]

\* C11 witness: both files are written with three rows, from two sections.
C11_Witness ==
    /\ pc = "done"
    /\ pdf_file.written
    /\ Len(pdf_file.rows) = 3
    /\ pdf_file.rows[1][2] # pdf_file.rows[3][2]
    /\ pdf_file.rows[1][4] # pdf_file.rows[2][4]

\* ------------------------------------------------------ repeated headings

\* the headings at positions h1 < h2 are valid and carry the same title
SameTitleAgain(nodes, h1, h2) ==
    /\ h1 < h2
    /\ nodes[h1].tag = "h2" /\ nodes[h2].tag = "h2"
    /\ ~InvalidHeadingAt(nodes, h1)
    /\ strip(nodes[h1].text) = strip(nodes[h2].text)

\* the first image with src of the heading occurrence at position h
FirstImagesOf(nodes, h) ==
    {j \in DOMAIN nodes :
        PageImageAt(nodes, j) /\ LastHeading(nodes, j) = h /\ RankAt(nodes, j) = 1}

\* no request after request r targets the file of request r
LastRequestToItsPath(r) ==
    \A q \in DOMAIN requests : q > r => requests[q].path # requests[r].path

\* C12: when a title heading occurs a second time on the page being walked,
\* the list of rows holds one row for its safe name, and the first image of
\* the second occurrence is requested for page_01.jpg in the folder of that
\* safe name, the very file the first image of the first occurrence was
\* requested for; when the download succeeds the file holds the second
\* occurrence's image and no longer the first's.
C12_RepeatedTitleRestarts ==
    pages # <<>> =>
        LET nodes == CurNodes
            i == Len(pages)
        IN  \A h1, h2 \in DOMAIN nodes :
                SameTitleAgain(nodes, h1, h2) =>
                    LET safe == make_safe_name(nodes[h2].text)
                        page01 == <<"comic_images", doctor_keys[i], safe,
                                    <<"page_", "0", "1", ".jpg">>>>
                    IN  /\ Cardinality({k \in DOMAIN titles_for_doctor :
                                           titles_for_doctor[k][3] = safe}) = 1
                        /\ \A j2 \in FirstImagesOf(nodes, h2) : \A r2 \in RequestsFor(i, j2) :
                               /\ requests[r2].path = page01
                               /\ \A j1 \in FirstImagesOf(nodes, h1) : \A r1 \in RequestsFor(i, j1) :
                                      /\ requests[r1].path = page01
                                      /\ (requests[r2].outcome = "ok" /\ LastRequestToItsPath(r2)) =>
                                             (<<page01, r2>> \in files /\ <<page01, r1>> \notin files)

\* C12 witness: heading, image, the same heading, image; both images were
\* saved, one row, and the only file is page_01.jpg holding the second image.
C12_Witness ==
    /\ pages # <<>>
    /\ Len(CurNodes) = 4
    /\ SameTitleAgain(CurNodes, 1, 3)
    /\ PageImageAt(CurNodes, 2) /\ PageImageAt(CurNodes, 4)
    /\ Len(requests) = 3
    /\ requests[2].outcome = "ok" /\ requests[3].outcome = "ok"
    /\ requests[2].path = requests[3].path
    /\ files = {<<requests[3].path, 3>>}
    /\ Len(titles_for_doctor) = 1

\* ------------------------------------------------------ order of the requests

\* number of page fetches among the first r requests
PageFetchesUpTo(r) == Cardinality({q \in 1..r : requests[q].kind = "page"})

\* C13: the k-th page fetch of the run is for the k-th selected section, and
\* every image fetch is for the section whose page was fetched last, that is
\* after its own section's page fetch (which succeeded) and before the next
\* section's; the image fetches of a section follow the positions of their
\* nodes on the page.
C13_SequentialSections ==
    \A r \in DOMAIN requests :
        LET k == PageFetchesUpTo(r)
        IN  /\ 1 <= k /\ k <= Len(doctor_keys)
            /\ requests[r].key = doctor_keys[k]
            /\ requests[r].kind = "img" =>
                   /\ \E p \in 1..(r - 1) :
                          /\ requests[p].kind = "page"
                          /\ requests[p].outcome = "ok"
                          /\ PageFetchesUpTo(p) = k
                   /\ pages[k][requests[r].node].tag = "img"
                   /\ \A q \in 1..(r - 1) :
                          (requests[q].kind = "img" /\ requests[q].key = requests[r].key)
                              => requests[q].node < requests[r].node

\* C13 witness: the page of the first section, two of its images in document
\* order, then the page of the second section.
C13_Witness ==
    /\ Len(requests) = 4
    /\ requests[1].kind = "page" /\ requests[1].key = "first_doctor"
    /\ requests[2].kind = "img" /\ requests[2].key = "first_doctor" /\ requests[2].node = 2
    /\ requests[3].kind = "img" /\ requests[3].key = "first_doctor" /\ requests[3].node = 3
    /\ requests[4].kind = "page" /\ requests[4].key = "second_doctor"

\* ------------------------------------------------------ rows, titles, folders

\* position of the first heading of the page whose safe name is safe
FirstHeadingOf(nodes, safe) ==
    LET hs == {h \in DOMAIN nodes : nodes[h].tag = "h2" /\ make_safe_name(nodes[h].text) = safe}
    IN  CHOOSE h \in hs : \A g \in hs : h <= g

\* C14: every row of the page being walked carries the section key and, as
\* title_lower, the lower-cased trimmed text of the first heading of the page
\* that has the row's safe name, whatever headings of that safe name follow.
C14_FirstHeadingWins ==
    pages # <<>> =>
        \A k \in DOMAIN titles_for_doctor :
            LET row == titles_for_doctor[k]
                first == FirstHeadingOf(CurNodes, row[3])
            IN  /\ row[1] = doctor_keys[Len(pages)]
                /\ row[2] = lower(strip(CurNodes[first].text))

\* C14 witness: the headings "a?" and "A", both of safe name "a", have been
\* walked in that order; the one row has title_lower "a?".
C14_Witness ==
    /\ pages # <<>>
    /\ Len(CurNodes) >= 2
    /\ CurNodes[1].tag = "h2" /\ CurNodes[1].text = <<"a", "?">>
    /\ CurNodes[2].tag = "h2" /\ CurNodes[2].text = <<"A">>
    /\ titles_for_doctor = <<<<doctor_keys[Len(pages)], <<"a", "?">>, <<"a">>>>>>

\* the folders that exist directly under the folder of section key
TitleFoldersOf(key) == {d \in dirs : Len(d) = 3 /\ d[1] = "comic_images" /\ d[2] = key}

\* C15: from the moment a section's page is parsed, the title folders under
\* the section's folder are exactly the folders named by the safe names of
\* the rows collected so far in that section.
C15_FoldersMatchRows ==
    pages # <<>> =>
        TitleFoldersOf(doctor_keys[Len(pages)])
            = {<<"comic_images", doctor_keys[Len(pages)], titles_for_doctor[k][3]>> :
                   k \in DOMAIN titles_for_doctor}

\* C15 witness: a valid heading without any image and two discarded headings
\* have been walked: one folder, one row, no image request.
C15_Witness ==
    /\ pc = "walk"
    /\ Len(CurNodes) = 3
    /\ CurNodes[1].tag = "h2" /\ ~InvalidHeadingAt(CurNodes, 1)
    /\ CurNodes[2].tag = "h2" /\ strip(CurNodes[2].text) = <<>>
    /\ CurNodes[3].tag = "h2" /\ strip(CurNodes[3].text) # <<>> /\ InvalidHeadingAt(CurNodes, 3)
    /\ Cardinality(TitleFoldersOf(CurKey)) = 1
    /\ Len(titles_for_doctor) = 1
    /\ Len(requests) = 1

\* ------------------------------------------------------ failed downloads

\* the number NN in the page_NN.jpg that request r targets
PageNumberOf(r) ==
    LET filename == requests[r].path[4]
    IN  DigitsValue(SubSeq(filename, 2, Len(filename) - 1))

\* the images with src after position j under the same heading occurrence
LaterSiblings(nodes, j) ==
    {j2 \in DOMAIN nodes :
        j2 > j /\ PageImageAt(nodes, j2) /\ LastHeading(nodes, j2) = LastHeading(nodes, j)}

\* request r is the only request of the run that targets its file
OnlyRequestToItsPath(r) ==
    \A q \in DOMAIN requests : q # r => requests[q].path # requests[r].path

\* the failed image requests: <<page, node position, request>>
FailedImageRequests ==
    {ijr \in UNION {UNION {{<<i, j, r>> : r \in RequestsFor(i, j)} : j \in DOMAIN pages[i]} :
                        i \in DOMAIN pages} :
        requests[ijr[3]].outcome # "ok"}

\* C16, as stated: after a failed image the next image of the same heading
\* occurrence targets the following page number, and when nothing else in
\* the run targets the failed number's file, there is no file at that path.
C16_FailedNumberHasNoFile ==
    \A ijr \in FailedImageRequests :
        LET nodes == pages[ijr[1]]
            r == ijr[3]
        IN  /\ \A j2 \in LaterSiblings(nodes, ijr[2]) : \A r2 \in RequestsFor(ijr[1], j2) :
                   PageNumberOf(r2) = PageNumberOf(r) + RankAt(nodes, j2) - RankAt(nodes, ijr[2])
            /\ OnlyRequestToItsPath(r) => \A f \in files : f[1] # requests[r].path

\* C16, amended: after a failed image the next image of the same heading
\* occurrence targets the following page number; no file holds the failed
\* image's body; when nothing else in the run targets the failed number's
\* file, a failed GET leaves no file there and a failed write leaves nothing
\* but the truncated file.
C16_FailedNumberConsumed ==
    \A ijr \in FailedImageRequests :
        LET nodes == pages[ijr[1]]
            r == ijr[3]
        IN  /\ \A j2 \in LaterSiblings(nodes, ijr[2]) : \A r2 \in RequestsFor(ijr[1], j2) :
                   PageNumberOf(r2) = PageNumberOf(r) + RankAt(nodes, j2) - RankAt(nodes, ijr[2])
            /\ <<requests[r].path, r>> \notin files
            /\ OnlyRequestToItsPath(r) =>
                   \A f \in files :
                       f[1] = requests[r].path => (requests[r].outcome = "write" /\ f[2] = 0)

\* C16 witness: the first image of a title failed at the GET, the second was
\* saved as page_02.jpg, and page_02.jpg is the only file.
C16_Witness ==
    /\ pc = "walk"
    /\ Len(requests) = 3
    /\ requests[2].kind = "img" /\ requests[2].outcome = "fetch"
    /\ requests[3].kind = "img" /\ requests[3].outcome = "ok"
    /\ requests[2].path[3] = requests[3].path[3]
    /\ requests[2].path[4] = <<"page_", "0", "1", ".jpg">>
    /\ requests[3].path[4] = <<"page_", "0", "2", ".jpg">>
    /\ files = {<<requests[3].path, 3>>}

\* ------------------------------------------------------ folder of an image

\* C17: every image request targets a file in a folder that exists and that
\* a valid heading earlier on the same page names by its safe name, which is
\* not empty; and while a title is current, the safe name computed from it is
\* not empty and its folder exists.
C17_ImageFolderExists ==
    /\ \A r \in DOMAIN requests :
           requests[r].kind = "img" =>
               LET k == PageFetchesUpTo(r)
                   h == LastHeading(pages[k], requests[r].node)
                   folder == SubSeq(requests[r].path, 1, 3)
               IN  /\ Len(requests[r].path) = 4
                   /\ folder[3] # <<>>
                   /\ h > 0
                   /\ folder = <<"comic_images", requests[r].key, make_safe_name(pages[k][h].text)>>
                   /\ \E d \in dirs : Len(d) = 3 /\ d = folder
    /\ (pc = "walk" /\ current_title # None) =>
           /\ make_safe_name(current_title) # <<>>
           /\ \E d \in dirs :
                  Len(d) = 3 /\ d = <<"comic_images", CurKey, make_safe_name(current_title)>>

\* C17 witness: under the heading "A" an image was saved into the folder "a".
C17_Witness ==
    /\ pc = "walk"
    /\ current_title = <<"A">>
    /\ Len(requests) = 2
    /\ requests[2].kind = "img" /\ requests[2].outcome = "ok"
    /\ requests[2].path[3] = <<"a">>
    /\ <<"comic_images", CurKey, <<"a">>>> \in TitleFoldersOf(CurKey)

====
